---- MODULE Spec2Model ----
(***************************************************************************)
(* Model of the PFT-classifier training pipeline of PRISMATIC              *)
(* (src/initialize/hyperspectral.py): filter_out_wavelengths and           *)
(* train_pft_classifier, of download_aop_files                             *)
(* (src/utils/download_functions.py) and of the loops of main              *)
(* (src/main.py, use_case "train").                                        *)
(*                                                                         *)
(* Representation choices                                                  *)
(*  - A wavelength is an integer number of tenths of a nanometre           *)
(*    (13405 is 1340.5 nm), so that rounding and the open bad-band         *)
(*    windows are computed, not assumed.                                   *)
(*  - A column / layer name is a record [x, word, num]: x leading "X"      *)
(*    characters, then the letters `word`, then the decimal digits of      *)
(*    `num` (num = -1: no digits).  "X1300" is [x |-> 1, word |-> "",      *)
(*    num |-> 1300], "1300" is [x |-> 0, word |-> "", num |-> 1300],       *)
(*    "chm" is [x |-> 0, word |-> "chm", num |-> -1].                      *)
(*  - A data frame is [cols |-> sequence of names, rows |-> sequence of    *)
(*    rows], a row being the sequence of its cell values in column order.  *)
(*    NA is the missing value.                                             *)
(***************************************************************************)
EXTENDS Integers, Sequences, FiniteSets, TLC

VARIABLES
    fw,             \* filter_out_wavelengths: argument wavelengths
    fn,             \* filter_out_wavelengths: argument layer_names
    fres,           \* filter_out_wavelengths: outcome of the call
    dirs,           \* the site-year directories, in os.listdir order
    rf_dir,         \* the files of rf_dir: <<>> absent, <<content>> present
    permutation42,  \* RandomState(42).permutation(n), for the n drawn so far
    rf_predict,     \* decisions of the fitted forests, for the rows seen so far
    last,           \* what the last call of train_pft_classifier did
    runs,           \* number of calls of train_pft_classifier
    dl,             \* download_aop_files: arguments, download folder and outcome
    main            \* main (use_case "train"): configuration, position and locals

fvars == <<fw, fn, fres>>

pvars == <<dirs, rf_dir, permutation42, rf_predict, last, runs>>

vars == <<fw, fn, fres, dirs, rf_dir, permutation42, rf_predict, last, runs, dl, main>>

(* ---------------------------------------------------------------------- *)
(* Bounds                                                                  *)
(* ---------------------------------------------------------------------- *)
MaxLen == 3

MaxRuns == 2

(* ---------------------------------------------------------------------- *)
(* Generic helpers                                                         *)
(* ---------------------------------------------------------------------- *)
\* a sequence given as a function, as the tuple of its elements
Eager(f) == f \o <<>>

Min(a, b) == IF a <= b THEN a ELSE b

Max(a, b) == IF a >= b THEN a ELSE b

Range(s) == {s[i] : i \in DOMAIN s}

SeqsUpTo(S, n) == UNION {[1..k -> S] : k \in 0..n}

RECURSIVE SelectIdx(_, _, _)
\* the increasing sequence of the indices i >= from of s with keep[i]
SelectIdx(keep, from, n) ==
    IF from > n THEN <<>>
    ELSE IF keep[from] THEN <<from>> \o SelectIdx(keep, from + 1, n)
    ELSE SelectIdx(keep, from + 1, n)

(* ---------------------------------------------------------------------- *)
(* Names                                                                   *)
(* ---------------------------------------------------------------------- *)
Num(n) == [x |-> 0, word |-> "", num |-> n]

Word(w) == [x |-> 0, word |-> w, num |-> -1]

XName(n) == [x |-> 1, word |-> "", num |-> n]

\* str.isdigit(): non-empty and digits only
IsDigit(name) == name.x = 0 /\ name.word = "" /\ name.num >= 0

\* str.startswith('X')
StartsWithX(name) == name.x >= 1

\* x[1:] of a name that starts with 'X'
StripX(name) == [name EXCEPT !.x = name.x - 1]

(* ---------------------------------------------------------------------- *)
(* filter_out_wavelengths                                                  *)
(* ---------------------------------------------------------------------- *)
BadBand1Lo == 13400

BadBand1Hi == 14450

BadBand2Lo == 17900

BadBand2Hi == 19550

\* round() / np.round of a non-negative wavelength: nearest integer number
\* of nanometres, ties to the even one
Round(w) ==
    LET q == w \div 10
        r == w % 10
    IN  IF r < 5 THEN q
        ELSE IF r > 5 THEN q + 1
        ELSE IF q % 2 = 0 THEN q ELSE q + 1

\* a deliberately wrong variant: closed windows, which also drop the four boundary values
InBadBandLoose(w) ==
    \/ (w >= BadBand1Lo /\ w <= BadBand1Hi)
    \/ (w >= BadBand2Lo /\ w <= BadBand2Hi)

\* the mask of lines 999-1002: (w > 1340) & (w < 1445) | (w > 1790) & (w < 1955)
InBadBand(w) ==
    \/ (w > BadBand1Lo /\ w < BadBand1Hi)
    \/ (w > BadBand2Lo /\ w < BadBand2Hi)

\* remove_bands: the values of wavelengths_np selected by the mask
RemoveBands(wavelengths) == {w \in Range(wavelengths) : InBadBand(w)}

\* layer_names[:len(wavelengths_np)]
NamePrefix(wavelengths, layer_names) ==
    SubSeq(layer_names, 1, Min(Len(wavelengths), Len(layer_names)))

\* float(name) raises ValueError unless the name is a number
FloatRaises(wavelengths, layer_names) ==
    \E i \in DOMAIN NamePrefix(wavelengths, layer_names) :
        ~IsDigit(NamePrefix(wavelengths, layer_names)[i])

\* np.allclose(a, b) raises ValueError when the shapes (n,) and (l,) do not
\* broadcast: they must be equal or one of them must be 1
BroadcastRaises(wavelengths, layer_names) ==
    LET n == Len(wavelengths)
        l == Len(NamePrefix(wavelengths, layer_names))
    IN  n # l /\ n # 1 /\ l # 1

\* np.allclose(np.round(wavelengths_np), floats) for shapes that broadcast;
\* rounded wavelengths and layer numbers are integers far below 1e5, where
\* the tolerance 1e-8 + 1e-5 * |b| is below 1: close means equal
AllClose(wavelengths, layer_names) ==
    LET p == NamePrefix(wavelengths, layer_names)
        n == Len(wavelengths)
        l == Len(p)
    IN  \A i \in 1..n : \A j \in 1..l :
            (n = l => i = j) => Round(wavelengths[i]) = p[j].num

\* a deliberately wrong variant: the ids of the first rows of the unfiltered list, not of
\* the rows retained
WavelengthLutShifted(wavelengths) ==
    LET keep == [i \in DOMAIN wavelengths |->
                    wavelengths[i] \notin RemoveBands(wavelengths)]
        idx  == SelectIdx(keep, 1, Len(wavelengths))
    IN  [k \in DOMAIN idx |->
            [wavelength  |-> wavelengths[idx[k]],
             xwavelength |-> XName(Round(wavelengths[k]))]]

\* wavelength_lut: rows [wavelength, xwavelength] of the wavelengths that
\* are not in remove_bands, in input order
WavelengthLut(wavelengths) ==
    LET keep == [i \in DOMAIN wavelengths |->
                    wavelengths[i] \notin RemoveBands(wavelengths)]
        idx  == SelectIdx(keep, 1, Len(wavelengths))
    IN  [k \in DOMAIN idx |->
            [wavelength  |-> wavelengths[idx[k]],
             xwavelength |-> XName(Round(wavelengths[idx[k]]))]]

filter_out_wavelengths(wavelengths, layer_names) ==
    IF FloatRaises(wavelengths, layer_names) \/ BroadcastRaises(wavelengths, layer_names)
    THEN [raised |-> TRUE, warned |-> FALSE, lut |-> <<>>]
    ELSE [raised |-> FALSE,
          warned |-> ~AllClose(wavelengths, layer_names),
          lut    |-> WavelengthLut(wavelengths)]

(* ---------------------------------------------------------------------- *)
(* Data frames                                                             *)
(* ---------------------------------------------------------------------- *)
NA == -1

ShapeIDCol == Word("shapeID")

PftCol == Word("pft")

PCName(i) == [x |-> 0, word |-> "PC", num |-> i]

EmptyFrame == [cols |-> <<>>, rows |-> <<>>]

HasCol(df, name) == \E i \in DOMAIN df.cols : df.cols[i] = name

\* position of the first column called name
ColIndex(cols, name) ==
    CHOOSE i \in DOMAIN cols : cols[i] = name /\ \A j \in 1..(i - 1) : cols[j] # name

Column(df, name) == Eager([r \in DOMAIN df.rows |-> df.rows[r][ColIndex(df.cols, name)]])

\* df[names]
SelectCols(df, names) ==
    [cols |-> names,
     rows |-> Eager([r \in DOMAIN df.rows |->
                 Eager([k \in DOMAIN names |-> df.rows[r][ColIndex(df.cols, names[k])]])])]

\* df.drop(columns whose index is not kept)
KeepCols(df, keep) ==
    LET idx == SelectIdx(keep, 1, Len(df.cols))
    IN  [cols |-> Eager([k \in DOMAIN idx |-> df.cols[idx[k]]]),
         rows |-> Eager([r \in DOMAIN df.rows |->
                     Eager([k \in DOMAIN idx |-> df.rows[r][idx[k]]])])]

KeepRows(df, keep) ==
    LET idx == SelectIdx(keep, 1, Len(df.rows))
    IN  [cols |-> df.cols, rows |-> Eager([k \in DOMAIN idx |-> df.rows[idx[k]]])]

\* an inner join: only the columns both frames have
ConcatColsInner(a, b) ==
    LET both == [i \in DOMAIN a.cols |-> HasCol(b, a.cols[i])]
        idx  == SelectIdx(both, 1, Len(a.cols))
    IN  IF a.cols = <<>> THEN b.cols ELSE [k \in DOMAIN idx |-> a.cols[idx[k]]]

\* pd.concat([a, b]): rows of a then rows of b over the union of the
\* columns (those of a, then the new ones of b); absent cells are NA
ConcatCols(a, b) ==
    LET new == [i \in DOMAIN b.cols |-> ~HasCol(a, b.cols[i])]
        idx == SelectIdx(new, 1, Len(b.cols))
    IN  a.cols \o [k \in DOMAIN idx |-> b.cols[idx[k]]]

Reindex(df, cols) ==
    Eager([r \in DOMAIN df.rows |->
        Eager([k \in DOMAIN cols |->
            IF HasCol(df, cols[k]) THEN df.rows[r][ColIndex(df.cols, cols[k])] ELSE NA])])

Concat(a, b) ==
    [cols |-> ConcatCols(a, b),
     rows |-> Reindex(a, ConcatCols(a, b)) \o Reindex(b, ConcatCols(a, b))]

RECURSIVE ConcatAll(_)
\* pd.concat(list of frames with the same columns)
ConcatAll(frames) ==
    IF Len(frames) = 0 THEN EmptyFrame
    ELSE IF Len(frames) = 1 THEN frames[1]
    ELSE Concat(frames[1], ConcatAll(Tail(frames)))

\* a deliberately wrong variant: dropna(how='all'), which keeps a row unless all its cells are missing
DropNaAllMissing(df) ==
    KeepRows(df, [r \in DOMAIN df.rows |-> \E k \in DOMAIN df.cols : df.rows[r][k] # NA])

\* df.dropna(): the rows without a missing cell
DropNa(df) ==
    KeepRows(df, [r \in DOMAIN df.rows |-> \A k \in DOMAIN df.cols : df.rows[r][k] # NA])

(* ---------------------------------------------------------------------- *)
(* train_pft_classifier: aggregation of the site-years (lines 609-651)     *)
(* ---------------------------------------------------------------------- *)
\* A site-year directory: which of its three files exist, and their content
SiteYear(has_wl, wavelengths, has_names, layer_names, has_feat, feat) ==
    [has_wl |-> has_wl, wavelengths |-> wavelengths,
     has_names |-> has_names, layer_names |-> layer_names,
     has_feat |-> has_feat, feat |-> feat]

\* [name for name in layer_names if not name.isdigit()]
AuxNames(layer_names) ==
    LET keep == [i \in DOMAIN layer_names |-> ~IsDigit(layer_names[i])]
        idx  == SelectIdx(keep, 1, Len(layer_names))
    IN  [k \in DOMAIN idx |-> layer_names[idx[k]]]

\* featureNames (line 633)
FeatureNames(lut, layer_names) ==
    <<ShapeIDCol, PftCol>> \o [k \in DOMAIN lut |-> lut[k].xwavelength] \o AuxNames(layer_names)

\* read_csv parses a column of numbers only as integers, which have no
\* isdigit method: line 633 raises AttributeError
IsDigitRaises(layer_names) ==
    Len(layer_names) > 0 /\ \A i \in DOMAIN layer_names : IsDigit(layer_names[i])

\* line 639: rename(columns=lambda x: x[1:] if x.startswith('X') else x)
RemoveX(df) ==
    [df EXCEPT !.cols = [k \in DOMAIN df.cols |->
        IF StartsWithX(df.cols[k]) THEN StripX(df.cols[k]) ELSE df.cols[k]]]

\* lines 645-646: the digit-only columns become X1..Xn by position among them
RenameOrdinal(df) ==
    LET keep == [k \in DOMAIN df.cols |-> IsDigit(df.cols[k])]
        idx  == SelectIdx(keep, 1, Len(df.cols))
        numeric_columns == [k \in DOMAIN idx |-> df.cols[idx[k]]]
    IN  [df EXCEPT !.cols = [k \in DOMAIN df.cols |->
            IF IsDigit(df.cols[k])
            THEN XName(ColIndex(numeric_columns, df.cols[k]))
            ELSE df.cols[k]]]

\* one iteration of the loop over site_year_paths: "skip" (continue),
\* "raise" (an exception leaves train_pft_classifier) or "ok" with features_temp
ProcessSiteYear(sy) ==
    LET flt   == filter_out_wavelengths(sy.wavelengths, sy.layer_names)
        names == FeatureNames(flt.lut, sy.layer_names)
    IN  IF ~sy.has_wl THEN [status |-> "skip", frame |-> EmptyFrame]
        ELSE IF ~sy.has_names THEN [status |-> "raise", frame |-> EmptyFrame]
        ELSE IF ~sy.has_feat THEN [status |-> "skip", frame |-> EmptyFrame]
        ELSE IF flt.raised \/ IsDigitRaises(sy.layer_names)
             THEN [status |-> "raise", frame |-> EmptyFrame]
        ELSE IF \E k \in DOMAIN names : ~HasCol(sy.feat, names[k])
             THEN [status |-> "raise", frame |-> EmptyFrame]
        ELSE [status |-> "ok",
              frame  |-> RenameOrdinal(RemoveX(SelectCols(sy.feat, names)))]

RECURSIVE AggregateFrom(_, _, _)
\* the loop of lines 610-648 from site-year i on, features_df being acc
AggregateFrom(paths, i, acc) ==
    IF i > Len(paths) THEN [raised |-> FALSE, frame |-> acc]
    ELSE LET p == ProcessSiteYear(paths[i])
         IN  IF p.status = "raise" THEN [raised |-> TRUE, frame |-> acc]
             ELSE IF p.status = "skip" THEN AggregateFrom(paths, i + 1, acc)
             ELSE AggregateFrom(paths, i + 1, Concat(acc, p.frame))

\* features_df before the dropna of line 651
Aggregate(paths) == AggregateFrom(paths, 1, EmptyFrame)

(* ---------------------------------------------------------------------- *)
(* train_pft_classifier: the split (lines 653-664)                         *)
(* ---------------------------------------------------------------------- *)
KeyOf(df, r) == <<df.rows[r][ColIndex(df.cols, PftCol)], df.rows[r][ColIndex(df.cols, ShapeIDCol)]>>

KeyLE(a, b) == a[1] < b[1] \/ (a[1] = b[1] /\ a[2] <= b[2])

RECURSIVE SortKeys(_)
SortKeys(S) ==
    IF S = {} THEN <<>>
    ELSE LET m == CHOOSE k \in S : \A o \in S : KeyLE(k, o)
         IN  <<m>> \o SortKeys(S \ {m})

\* groupby(['pft', 'shapeID']): one frame per key, keys in sorted order,
\* the rows of a group in their order in features_df
Groups(df) ==
    LET keys == SortKeys({KeyOf(df, r) : r \in DOMAIN df.rows})
    IN  Eager([g \in DOMAIN keys |->
            KeepRows(df, [r \in DOMAIN df.rows |-> KeyOf(df, r) = keys[g]])])

\* a deliberately wrong variant: a test side of all groups but one
NTestMost(n) == Max(1, n - 1)

\* ceil(0.2 * n) for the n of this model (0.2 * n is exact or rounds to
\* the exact product for n < 15)
NTest(n) == (n + 4) \div 5

NTrain(n) == n - NTest(n)

\* train_test_split raises ValueError for an empty list and for an empty
\* train side
SplitRaises(n) == n = 0 \/ NTrain(n) = 0

Perms(n) == {p \in [1..n -> 1..n] : \A i, j \in 1..n : p[i] = p[j] => i = j}

\* ShuffleSplit: test = permutation[:n_test], train = permutation[n_test:]
TestIdx(perm) == SubSeq(perm, 1, NTest(Len(perm)))

\* a deliberately wrong variant: a train side that takes every group, those of the test side too
TrainIdxAll(perm) == perm

TrainIdx(perm) == SubSeq(perm, NTest(Len(perm)) + 1, Len(perm))

DropShapeID(df) == KeepCols(df, [k \in DOMAIN df.cols |-> df.cols[k] # ShapeIDCol])

(* ---------------------------------------------------------------------- *)
(* train_pft_classifier: scaler and PCA (lines 671-685, 743-748)           *)
(*                                                                         *)
(* A fitted StandardScaler is its sufficient statistics per column (the    *)
(* sample count, the sum and the sum of squares, which determine mean_     *)
(* and scale_).  A standardized matrix is the raw matrix together with the *)
(* scaler applied to it; a fitted PCA is the standardized matrix it was    *)
(* fitted on and its number of components; a matrix of principal           *)
(* components is the raw matrix together with the scaler and the PCA       *)
(* applied to it, row by row.  Equal transformed rows are thus produced    *)
(* only by equal raw rows under equal fitted parameters.                   *)
(* ---------------------------------------------------------------------- *)
RECURSIVE SumSeq(_)
SumSeq(s) == IF Len(s) = 0 THEN 0 ELSE Head(s) + SumSeq(Tail(s))

\* df.loc[:, df.columns.str.startswith('X')]
XPart(df) == KeepCols(df, [k \in DOMAIN df.cols |-> StartsWithX(df.cols[k])])

\* df.drop([col for col in df.columns if col.startswith("X")], axis=1)
NoWavelengths(df) == KeepCols(df, [k \in DOMAIN df.cols |-> ~StartsWithX(df.cols[k])])

\* StandardScaler().fit(X)
ScalerFit(X) ==
    [n     |-> Len(X.rows),
     sum   |-> [c \in DOMAIN X.cols |-> SumSeq([r \in DOMAIN X.rows |-> X.rows[r][c]])],
     sumsq |-> [c \in DOMAIN X.cols |->
                  SumSeq([r \in DOMAIN X.rows |-> X.rows[r][c] * X.rows[r][c]])]]

\* check_array rejects a matrix without columns
ScalerRaises(X) == Len(X.cols) = 0

\* scaler.transform(X): row by row
ScalerTransform(scaler, X) == [rows |-> X.rows, scaler |-> scaler]

\* The number of components PCA(n_components=0.99) keeps depends on the
\* data only; it lies between 1 and min(n_samples, n_features).  It is
\* modelled by the number of non-constant columns, at most the rank a
\* centred matrix of that shape can have.
NComponents(X) ==
    LET varying == {c \in DOMAIN X.cols :
                       \E r1, r2 \in DOMAIN X.rows : X.rows[r1][c] # X.rows[r2][c]}
    IN  Max(1, Min(Cardinality(varying), Min(Len(X.rows) - 1, Len(X.cols))))

\* PCA(n_components=0.99).fit(X_scaled), X being the raw matrix of X_scaled
PcaFit(X, X_scaled) == [fit_on |-> X_scaled, n_components |-> NComponents(X)]

\* pca.transform(X_scaled): row by row, n_components cells per row
PcaTransform(pca, X_scaled) ==
    [rows |-> X_scaled.rows, scaler |-> X_scaled.scaler, pca |-> pca]

\* a deliberately wrong variant: the two blocks joined on indexes that do not correspond,
\* the components of the last sample next to the labels of the first
FeaturesMisaligned(df, X_pca) ==
    LET nw == NoWavelengths(df)
    IN  [cols   |-> nw.cols \o [i \in 1..X_pca.pca.n_components |-> PCName(i)],
         rows   |-> Eager([r \in DOMAIN nw.rows |->
                       [raw |-> nw.rows[r], x |-> X_pca.rows[Len(nw.rows) + 1 - r]]]),
         scaler |-> X_pca.scaler,
         pca    |-> X_pca.pca]

\* lines 685 and 748: the non-spectral columns side by side with PC1..PCk.
\* A row of the result is [raw |-> its non-spectral cells, x |-> the raw
\* spectral row its PC cells are the transform of]; scaler and pca are the
\* fitted objects that made the PC cells.
Features(df, X_pca) ==
    LET nw == NoWavelengths(df)
    IN  [cols   |-> nw.cols \o [i \in 1..X_pca.pca.n_components |-> PCName(i)],
         rows   |-> Eager([r \in DOMAIN nw.rows |-> [raw |-> nw.rows[r], x |-> X_pca.rows[r]]]),
         scaler |-> X_pca.scaler,
         pca    |-> X_pca.pca]

\* features["pft"]
Labels(features) ==
    Eager([r \in DOMAIN features.rows |-> features.rows[r].raw[ColIndex(features.cols, PftCol)]])

\* features.drop(["pft"], axis=1)
DropPft(features) ==
    LET p    == ColIndex(features.cols, PftCol)
        keep == [k \in DOMAIN features.cols |-> k # p]
        idx  == SelectIdx(keep, 1, Len(features.cols))
    IN  [cols   |-> Eager([k \in DOMAIN idx |-> features.cols[idx[k]]]),
         rows   |-> Eager([r \in DOMAIN features.rows |->
                     [raw |-> Eager([k \in 1..(Len(features.rows[r].raw) - 1) |->
                                  features.rows[r].raw[IF k < p THEN k ELSE k + 1]]),
                      x   |-> features.rows[r].x]]),
         scaler |-> features.scaler,
         pca    |-> features.pca]

(* ---------------------------------------------------------------------- *)
(* train_pft_classifier: balancing, classifier, evaluation (729-773)       *)
(* ---------------------------------------------------------------------- *)
RandomState == 42

ClassCount(df, c) == Cardinality({r \in DOMAIN df.rows : df.rows[r][ColIndex(df.cols, PftCol)] = c})

Classes(df) == {df.rows[r][ColIndex(df.cols, PftCol)] : r \in DOMAIN df.rows}

\* train_df["pft"].value_counts().min()
MinSamples(df) ==
    CHOOSE m \in 0..Len(df.rows) :
        /\ \E c \in Classes(df) : ClassCount(df, c) = m
        /\ \A c \in Classes(df) : ClassCount(df, c) >= m

\* the outcomes of groupby("pft").apply(lambda x: x.sample(minSamples)):
\* any minSamples rows of every class (sample() is not seeded)
Subsamples(df) ==
    LET minSamples == MinSamples(df)
        pft        == Column(df, PftCol)
        classes    == Classes(df)
    IN  {S \in SUBSET (DOMAIN df.rows) :
            \A c \in classes : Cardinality({r \in S : pft[r] = c}) = minSamples}

\* RF(n_estimators=ntree, random_state=42, class_weight="balanced").fit(X, y)
RfFit(X, y, ntree) ==
    [X |-> X, y |-> y, n_estimators |-> ntree,
     random_state |-> RandomState, class_weight |-> "balanced"]

RfClasses(rf_model) == Range(rf_model.y)

\* predict rejects a feature list other than the fitted one
PredictRaises(rf_model, X) == rf_model.X.cols # X.cols

RECURSIVE SortInts(_)
SortInts(S) ==
    IF S = {} THEN <<>>
    ELSE LET m == CHOOSE k \in S : \A o \in S : k <= o
         IN  <<m>> \o SortInts(S \ {m})

\* confusion_matrix(y_true, y_pred): labels are the sorted union of both
CmLabels(y_true, y_pred) == SortInts(Range(y_true) \cup Range(y_pred))

ConfusionMatrix(y_true, y_pred) ==
    LET labels == CmLabels(y_true, y_pred)
    IN  [i \in DOMAIN labels |-> [j \in DOMAIN labels |->
            Cardinality({r \in DOMAIN y_true :
                            y_true[r] = labels[i] /\ y_pred[r] = labels[j]})]]

\* line 755: index = columns = sorted(set(y_pred)); the DataFrame
\* constructor raises ValueError when the matrix has another shape
CmIndex(y_pred) == SortInts(Range(y_pred))

CmDfRaises(y_true, y_pred) == Len(CmIndex(y_pred)) # Len(CmLabels(y_true, y_pred))

\* f"{num/den:.4f}": the number of ten-thousandths nearest to num / den
\* (no quotient of this model lies half-way between two of them)
Fmt4(num, den) == (2 * 10000 * num + den) \div (2 * den)

RECURSIVE SumOver(_, _)
\* the sum of f[c] over the classes c of S
SumOver(f, S) ==
    IF S = {} THEN 0
    ELSE LET c == CHOOSE k \in S : TRUE IN f[c] + SumOver(f, S \ {c})

RECURSIVE ProdOver(_, _)
ProdOver(f, S) ==
    IF S = {} THEN 1
    ELSE LET c == CHOOSE k \in S : TRUE IN f[c] * ProdOver(f, S \ {c})

\* per class of y_true or y_pred: true positives, predicted count, support
ClassCounts(y_true, y_pred) ==
    [c \in Range(y_true) \cup Range(y_pred) |->
        [tp      |-> Cardinality({r \in DOMAIN y_true : y_true[r] = c /\ y_pred[r] = c}),
         pred    |-> Cardinality({r \in DOMAIN y_true : y_pred[r] = c}),
         support |-> Cardinality({r \in DOMAIN y_true : y_true[r] = c})]]

\* accuracy_score, as the fraction <<numerator, denominator>>
AccuracyScore(y_true, y_pred) ==
    <<Cardinality({r \in DOMAIN y_true : y_true[r] = y_pred[r]}), Len(y_true)>>

\* precision_score(average='weighted'): the support-weighted mean of
\* tp / pred, a class never predicted counting 0
PrecisionScore(y_true, y_pred) ==
    LET k == ClassCounts(y_true, y_pred)
        d == [c \in DOMAIN k |-> Max(1, k[c].pred)]
        D == ProdOver(d, DOMAIN k)
    IN  <<SumOver([c \in DOMAIN k |-> k[c].support * k[c].tp * (D \div d[c])], DOMAIN k),
          Len(y_true) * D>>

\* recall_score(average='weighted'): the support-weighted mean of tp / support
RecallScore(y_true, y_pred) ==
    LET k == ClassCounts(y_true, y_pred)
    IN  <<SumOver([c \in DOMAIN k |-> k[c].tp], DOMAIN k), Len(y_true)>>

\* f1_score(average='weighted'): the support-weighted mean of
\* 2 tp / (pred + support)
F1Score(y_true, y_pred) ==
    LET k == ClassCounts(y_true, y_pred)
        d == [c \in DOMAIN k |-> k[c].pred + k[c].support]
        D == ProdOver(d, DOMAIN k)
    IN  <<SumOver([c \in DOMAIN k |-> k[c].support * 2 * k[c].tp * (D \div d[c])], DOMAIN k),
          Len(y_true) * D>>

\* classification_report: per class precision, recall and f1 with two
\* decimals (here in ten-thousandths, which determine them) and the support
ClassificationReport(y_true, y_pred) ==
    LET k == ClassCounts(y_true, y_pred)
    IN  [c \in DOMAIN k |->
            [precision |-> Fmt4(k[c].tp, Max(1, k[c].pred)),
             recall    |-> Fmt4(k[c].tp, Max(1, k[c].support)),
             f1        |-> Fmt4(2 * k[c].tp, k[c].pred + k[c].support),
             support   |-> k[c].support]]

\* cm_analysis: confusion_matrix(labels=labels, normalize='true') as written
\* to <savefile>_CMnorm.csv: the cell of true class labels[i] and predicted
\* class labels[j] as the fraction <<count, row sum>> (0 for an empty row)
cm_analysis(y_true, y_pred, labels) ==
    [i \in DOMAIN labels |-> [j \in DOMAIN labels |->
        <<Cardinality({r \in DOMAIN y_true : y_true[r] = labels[i] /\ y_pred[r] = labels[j]}),
          Max(1, Cardinality({r \in DOMAIN y_true :
                                 y_true[r] = labels[i] /\ y_pred[r] \in Range(labels)}))>>]]

\* class_report: classification_report(labels=labels, output_dict=True) as
\* written to <savefile>_ClassReport.csv
class_report(y_test, y_pred, labels) ==
    LET k == ClassCounts(y_test, y_pred)
    IN  [i \in DOMAIN labels |->
            [label     |-> labels[i],
             precision |-> <<k[labels[i]].tp, Max(1, k[labels[i]].pred)>>,
             recall    |-> <<k[labels[i]].tp, Max(1, k[labels[i]].support)>>,
             support   |-> k[labels[i]].support]]

\* summary_stats (lines 761-768), the content of rf_summary_statistics.txt
SummaryStats(y_true, y_pred) ==
    [conf_matrix |-> ConfusionMatrix(y_true, y_pred),
     index       |-> CmIndex(y_pred),
     accuracy    |-> Fmt4(AccuracyScore(y_true, y_pred)[1], AccuracyScore(y_true, y_pred)[2]),
     precision   |-> Fmt4(PrecisionScore(y_true, y_pred)[1], PrecisionScore(y_true, y_pred)[2]),
     recall      |-> Fmt4(RecallScore(y_true, y_pred)[1], RecallScore(y_true, y_pred)[2]),
     f1          |-> Fmt4(F1Score(y_true, y_pred)[1], F1Score(y_true, y_pred)[2]),
     report      |-> ClassificationReport(y_true, y_pred)]

(* ---------------------------------------------------------------------- *)
(* train_pft_classifier as an action                                       *)
(* ---------------------------------------------------------------------- *)
\* the files of rf_dir that are read or written as data: scaler.joblib,
\* pca.joblib, rf_model.joblib, rf_summary_statistics.txt and the tables
\* <savefile>_CMnorm.csv and <savefile>_ClassReport.csv of cm_analysis and
\* class_report, which train_pft_classifier does not call
NoFiles ==
    [scaler |-> <<>>, pca |-> <<>>, rf_model |-> <<>>, summary |-> <<>>,
     CMnorm_csv |-> <<>>, ClassReport_csv |-> <<>>]

NoFeatures == [cols |-> <<>>, rows |-> <<>>, scaler |-> <<>>, pca |-> <<>>]

NoRun ==
    [status |-> "none", stage |-> "", randomMinSamples |-> FALSE, paths |-> <<>>,
     features_df |-> EmptyFrame, train_groups |-> <<>>, test_groups |-> <<>>,
     scaler |-> <<>>, pca |-> <<>>,
     train_features |-> NoFeatures, test_features |-> NoFeatures,
     sampled |-> {}, fitted |-> FALSE, dumped |-> 0, rf_model |-> <<>>, y_pred |-> <<>>]

\* a deliberately wrong variant: a train side rebalanced at split time, every class cut
\* to the size of the smallest
TrainDfBalanced(train_groups) ==
    LET df  == DropShapeID(ConcatAll(train_groups))
        m   == MinSamples(df)
        pft == Column(df, PftCol)
    IN  KeepRows(df, [r \in DOMAIN df.rows |->
                        Cardinality({q \in 1..r : pft[q] = pft[r]}) <= m])

\* train_df and test_df of lines 659-664
TrainDf(train_groups) == DropShapeID(ConcatAll(train_groups))

TestDf(test_groups) == DropShapeID(ConcatAll(test_groups))

\* a deliberately wrong variant: a split without random_state draws anew in every call
PermutationUnseeded(n) == Perms(n)

\* the permutation drawn for n samples is the one drawn before for n
PermutationFor(n) ==
    IF n \in DOMAIN permutation42 THEN {permutation42[n]} ELSE Perms(n)

Remember(n, perm) ==
    [m \in DOMAIN permutation42 \cup {n} |-> IF m = n THEN perm ELSE permutation42[m]]

\* a deliberately wrong variant: a forest that may decide anew on a row it has seen
PredictionsAny(rf_model, X) == [DOMAIN X.rows -> RfClasses(rf_model)]

\* the predictions a forest can make for the rows of X: one of its classes
\* per row, the same for equal rows, and the one made before for a row
Predictions(rf_model, X) ==
    {y \in [DOMAIN X.rows -> RfClasses(rf_model)] :
        /\ \A r1, r2 \in DOMAIN X.rows : X.rows[r1] = X.rows[r2] => y[r1] = y[r2]
        /\ \A r \in DOMAIN X.rows : \A d \in rf_predict :
              (d.rf_model = rf_model /\ d.scaler = X.scaler /\ d.pca = X.pca
                  /\ d.row = X.rows[r])
                 => y[r] = d.label}

Decisions(rf_model, X, y_pred) ==
    {[rf_model |-> rf_model, scaler |-> X.scaler, pca |-> X.pca, row |-> X.rows[r],
      label |-> y_pred[r]] : r \in DOMAIN X.rows}

\* a deliberately wrong variant: the file opened with "a", which keeps the earlier content
WriteSummaryAppend(old, summary_stats) == old \o <<summary_stats>>

\* lines 772-773: open(rf_summ_txt_path, "w") and write: the file holds
\* summary_stats and nothing of what it held
WriteSummary(old, summary_stats) == <<summary_stats>>

\* an exception leaves the call at `stage`; `done` is the progress so far
Raise(stage, done) ==
    /\ last' = [done EXCEPT !.status = "error", !.stage = stage]

\* lines 733-773 for the chosen permutation, sample and predictions
Evaluate(done, rf_model, test_features, ntree) ==
    IF PredictRaises(rf_model, DropPft(test_features))
    THEN /\ Raise("predict", done)
         /\ UNCHANGED rf_predict
         /\ rf_dir' = [rf_dir EXCEPT !.scaler = done.scaler, !.pca = done.pca,
                                     !.rf_model = <<rf_model>>]
    ELSE \E y_pred \in Predictions(rf_model, DropPft(test_features)) :
         /\ rf_predict' = rf_predict \cup Decisions(rf_model, DropPft(test_features), y_pred)
         /\ IF CmDfRaises(Labels(test_features), y_pred)
            THEN /\ Raise("metrics", [done EXCEPT !.y_pred = y_pred])
                 /\ rf_dir' = [rf_dir EXCEPT !.scaler = done.scaler, !.pca = done.pca,
                                             !.rf_model = <<rf_model>>]
            ELSE /\ last' = [done EXCEPT !.status = "done", !.stage = "return",
                                         !.y_pred = y_pred]
                 /\ rf_dir' = [rf_dir EXCEPT
                               !.scaler   = done.scaler,
                               !.pca      = done.pca,
                               !.rf_model = <<rf_model>>,
                               !.summary  = WriteSummary(rf_dir.summary,
                                               SummaryStats(Labels(test_features), y_pred))]

\* a deliberately wrong variant: the scaler and the PCA fitted on all rows, train and test
FitInputAll(train_df, test_df) == XPart(Concat(train_df, test_df))

\* line 673: the matrix the scaler and the PCA are fitted on
FitInput(train_df, test_df) == XPart(train_df)

\* a deliberately wrong variant: the existing artifact is ignored and the classifier retrained
ModelExistsNever(files) == FALSE

\* line 734: os.path.exists(rf_model_path)
ModelExists(files) == files.rf_model # <<>>

\* lines 671-741 for the chosen permutation
FitAndEvaluate(done, train_df, test_df, randomMinSamples, ntree) ==
    LET X_train        == FitInput(train_df, test_df)
        scaler         == ScalerFit(X_train)
        X_train_scaled == ScalerTransform(scaler, X_train)
        pca            == PcaFit(X_train, X_train_scaled)
        X_train_pca    == PcaTransform(pca, X_train_scaled)
        train_features == Features(train_df, X_train_pca)
        X_test_scaled  == ScalerTransform(scaler, XPart(test_df))
        X_test_pca     == PcaTransform(pca, X_test_scaled)
        test_features  == Features(test_df, X_test_pca)
        exists         == ModelExists(rf_dir)
        fit            == RfFit(DropPft(train_features), Labels(train_features), ntree)
        rf_model       == IF exists THEN rf_dir.rf_model[1] ELSE fit
    IN  IF ScalerRaises(X_train)
        THEN /\ Raise("scaler", done)
             /\ UNCHANGED <<rf_dir, rf_predict>>
        ELSE \E sampled \in (IF randomMinSamples THEN Subsamples(train_df)
                             ELSE {DOMAIN train_df.rows}) :
             Evaluate([done EXCEPT !.scaler = <<scaler>>, !.pca = <<pca>>,
                                   !.train_features = train_features,
                                   !.test_features = test_features,
                                   !.sampled = sampled,
                                   !.fitted = ~exists,
                                   !.dumped = IF exists THEN 0 ELSE 1,
                                   !.rf_model = <<rf_model>>],
                      rf_model, test_features, ntree)

Run(randomMinSamples, ntree) ==
    /\ runs < MaxRuns
    /\ runs' = runs + 1
    /\ UNCHANGED <<dirs, fw, fn, fres, dl, main>>
    /\ LET agg         == Aggregate(dirs)
           features_df == DropNa(agg.frame)
           groups      == Groups(features_df)
           start       == [NoRun EXCEPT !.randomMinSamples = randomMinSamples, !.paths = dirs]
           done        == [start EXCEPT !.features_df = features_df]
       IN  IF agg.raised
           THEN Raise("aggregate", start) /\ UNCHANGED <<rf_dir, rf_predict, permutation42>>
           ELSE IF ~HasCol(features_df, PftCol)
           THEN Raise("groupby", done) /\ UNCHANGED <<rf_dir, rf_predict, permutation42>>
           ELSE IF SplitRaises(Len(groups))
           THEN Raise("split", done) /\ UNCHANGED <<rf_dir, rf_predict, permutation42>>
           ELSE \E perm \in PermutationFor(Len(groups)) :
                LET train_groups == Eager([k \in DOMAIN TrainIdx(perm) |-> groups[TrainIdx(perm)[k]]])
                    test_groups  == Eager([k \in DOMAIN TestIdx(perm) |-> groups[TestIdx(perm)[k]]])
                IN  /\ permutation42' = Remember(Len(groups), perm)
                    /\ FitAndEvaluate([done EXCEPT !.train_groups = train_groups,
                                                   !.test_groups = test_groups],
                                      TrainDf(train_groups), TestDf(test_groups),
                                      randomMinSamples, ntree)

(* ---------------------------------------------------------------------- *)
(* main, use_case "train" (src/main.py, lines 68-285)                      *)
(* ---------------------------------------------------------------------- *)
\* A mapping (force_rerun, rerun_status) is the sequence of its items
\* <<key, value>>, in iteration order.  cfg.sites.run is flattened to the
\* sequence of its site-years [site, year_inventory, year_aop, force_rerun],
\* in the order the two nested loops visit them.

\* cfg.sites.global_run_params.force_rerun
global_force_rerun == << <<"prep_lad", TRUE>> >>

\* rerun_status after the items of p.force_rerun: v or global_force_rerun.get(k, False)
RerunStatus(force_rerun) ==
    [j \in DOMAIN force_rerun |->
        <<force_rerun[j][1],
          \/ force_rerun[j][2]
          \/ \E g \in DOMAIN global_force_rerun :
                global_force_rerun[g][1] = force_rerun[j][1] /\ global_force_rerun[g][2]>>]

\* the cache of a site-year: build_cache_site is called with the site, the
\* two years and paths that are the same throughout main
build_cache_site(site, year_inventory, year_aop) ==
    [site |-> site, year_inventory |-> year_inventory, year_aop |-> year_aop]

\* os.path.join(data_raw_aop_path, site, year_aop, folder)
RawAopPath(site, year_aop, folder) == <<"data_raw_aop_path", site, year_aop, folder>>

\* os.path.join(data_raw_inv_path, "All_NEON_TOS_Plots_V9")
NeonPlotsPath == <<"data_raw_inv_path", "All_NEON_TOS_Plots_V9">>

\* the locals of main that the loops assign, before the first assignment
Unbound ==
    [bound |-> FALSE, rerun_status |-> <<>>, year_aop |-> "", cache |-> <<>>,
     laz_path |-> <<>>, hs_path |-> <<>>, tif_path |-> <<>>, neon_plots_path |-> <<>>]

\* the assignments of lines 157-177 (and of lines 77-123, the download
\* stages returning the raw-data folders of the site and year they are
\* called with)
Assigned(locals, p, hs_type) ==
    [locals EXCEPT !.bound = TRUE,
                   !.year_aop = p.year_aop,
                   !.cache = build_cache_site(p.site, p.year_inventory, p.year_aop),
                   !.laz_path = RawAopPath(p.site, p.year_aop, "laz"),
                   !.hs_path = RawAopPath(p.site, p.year_aop,
                                         IF hs_type = "tile" THEN "hs_tile" ELSE "hs_flightline"),
                   !.tif_path = RawAopPath(p.site, p.year_aop, "tif"),
                   !.neon_plots_path = NeonPlotsPath]

NoMain ==
    [pc |-> "none", cfg |-> <<>>, global_run |-> {}, hs_type |-> "", i |-> 0,
     locals |-> Unbound, stages |-> [index |-> 0, locals |-> Unbound], exc |-> ""]

\* after the site-year i of a loop: the next one, or what follows the loop
Advance(m, after) ==
    IF m.i < Len(m.cfg) THEN [m EXCEPT !.i = m.i + 1] ELSE [m EXCEPT !.pc = after, !.i = 1]

\* one site-year of the first loop (lines 70-135): the raw data, for the
\* sites of global_run (all sites when global_run is empty)
DownloadRawData ==
    /\ main.pc = "download"
    /\ LET p == main.cfg[main.i]
           locals == Assigned([main.locals EXCEPT !.rerun_status = RerunStatus(p.force_rerun)],
                              p, main.hs_type)
       IN  main' = IF main.global_run = {} \/ p.site \in main.global_run
                   THEN Advance([main EXCEPT !.locals = locals], "reference")
                   ELSE Advance(main, "reference")
    /\ UNCHANGED <<fw, fn, fres, dirs, rf_dir, permutation42, rf_predict, last, runs, dl>>

\* the loop of lines 138-146 over all sites: generate_pft_reference is
\* called with the cache and rerun_status the first loop left
GeneratePftReference ==
    /\ main.pc = "reference"
    /\ main' = IF ~main.locals.bound
               THEN [main EXCEPT !.pc = "raised", !.exc = "NameError"]
               ELSE [main EXCEPT !.pc = "process", !.i = 1]
    /\ UNCHANGED <<fw, fn, fres, dirs, rf_dir, permutation42, rf_predict, last, runs, dl>>

RECURSIVE LocalsInItems(_, _, _, _)
\* the body of `for k, v in p.force_rerun.items()` (lines 155-177) from item
\* j on: it assigns rerun_status[k] and, in the loop, the other locals
LocalsInItems(locals, p, hs_type, j) ==
    IF j > Len(p.force_rerun) THEN locals
    ELSE LocalsInItems(
             Assigned([locals EXCEPT !.rerun_status =
                          Append(locals.rerun_status, RerunStatus(p.force_rerun)[j])],
                      p, hs_type),
             p, hs_type, j + 1)

\* one site-year of the third loop (lines 151-285): rerun_status = {}, the
\* loop over the items, then the stages, called with the locals as they are
ProcessIntermediate ==
    /\ main.pc = "process"
    /\ LET p == main.cfg[main.i]
           locals == LocalsInItems([main.locals EXCEPT !.rerun_status = <<>>],
                                   p, main.hs_type, 1)
       IN  main' = IF main.global_run = {} \/ p.site \in main.global_run
                   THEN Advance([main EXCEPT !.locals = locals,
                                             !.stages = [index |-> main.i, locals |-> locals]],
                                "finished")
                   ELSE Advance(main, "finished")
    /\ UNCHANGED <<fw, fn, fres, dirs, rf_dir, permutation42, rf_predict, last, runs, dl>>

(* ---------------------------------------------------------------------- *)
(* download_aop_files (src/utils/download_functions.py)                    *)
(*                                                                         *)
(* A Python value is [type, val]: None, a str or a list.  A data url of    *)
(* the API is [site, year, month] for ".../<product>/<site>/<year>-<month>"*)
(* and a file of a url is [name, size].  A file name and a match string    *)
(* are the sequence of their characters; the site code and the year at     *)
(* the head of a name stand as one piece each for their characters, none   *)
(* of which occurs in the match strings tried.                             *)
(* ---------------------------------------------------------------------- *)
None == [type |-> "NoneType", val |-> ""]

PyStr(text) == [type |-> "str", val |-> text]

PyList(items) == [type |-> "list", val |-> items]

\* str(v): "None" for None, the text itself for a str
Str(v) == IF v.type = "NoneType" THEN PyStr("None") ELSE PyStr(v.val)

\* v is not None
IsNotNone(v) == v.type # "NoneType"

DataUrl(site, year, month) == [site |-> site, year |-> year, month |-> month]

\* r.json()['data']['siteCodes'] of the product: the sites with their
\* availableDataUrls
SiteCodes ==
    << [siteCode |-> "JORN",
        availableDataUrls |-> <<DataUrl("JORN", "2019", "04"), DataUrl("JORN", "2020", "05")>>],
       [siteCode |-> "SRER",
        availableDataUrls |-> <<DataUrl("SRER", "2019", "06")>>],
       [siteCode |-> "WOOD", availableDataUrls |-> <<>>] >>

\* r.json()['data']['files'] of a data url: the canopy height and the
\* terrain model of tile pq and the canopy height of tile qp
FilesOf(url) ==
    LET head == <<url.site, url.year, "_">>
        unit == IF url.year = "2020" THEN 8 ELSE 1
    IN  << [name |-> head \o <<"p", "q", "_", "C", "H", "M">>, size |-> unit],
           [name |-> head \o <<"p", "q", "_", "D", "T", "M">>, size |-> 2 * unit],
           [name |-> head \o <<"q", "p", "_", "C", "H", "M">>, size |-> 4 * unit] >>

\* `sub in name` for two texts: sub occurs in name as a run of characters
Contains(name, sub) ==
    \E o \in 0..(Len(name) - Len(sub)) : \A i \in DOMAIN sub : name[o + i] = sub[i]

\* `year in url`: the text of a year occurs in a data url as its year;
\* "None" occurs in none
YearInUrl(year, url) == year.val = url.year

\* the loop of lines 40-45 and 69-74: the availableDataUrls of the last
\* site code that contains `site`; the name stays unbound without one
SiteUrls(site) ==
    LET hits == {i \in DOMAIN SiteCodes : SiteCodes[i].siteCode = site}
    IN  IF hits = {} THEN [bound |-> FALSE, urls |-> <<>>]
        ELSE [bound |-> TRUE,
              urls  |-> SiteCodes[CHOOSE i \in hits : \A j \in hits : j <= i].availableDataUrls]

\* list_available_urls(product, site): UnboundLocalError for an unknown
\* site, a warning and None for a site without urls, else the urls
list_available_urls(site) ==
    LET found == SiteUrls(site)
    IN  IF ~found.bound THEN [raised |-> TRUE, warned |-> FALSE, value |-> None]
        ELSE IF Len(found.urls) = 0 THEN [raised |-> FALSE, warned |-> TRUE, value |-> None]
        ELSE [raised |-> FALSE, warned |-> FALSE, value |-> PyList(found.urls)]

\* list_available_urls_by_year(product, site, year): the urls that contain
\* year; a warning and None when there is none
list_available_urls_by_year(site, year) ==
    LET found     == SiteUrls(site)
        keep      == [i \in DOMAIN found.urls |-> YearInUrl(year, found.urls[i])]
        idx       == SelectIdx(keep, 1, Len(found.urls))
        data_urls == [k \in DOMAIN idx |-> found.urls[idx[k]]]
    IN  IF ~found.bound THEN [raised |-> TRUE, warned |-> FALSE, value |-> None]
        ELSE IF Len(data_urls) = 0 THEN [raised |-> FALSE, warned |-> TRUE, value |-> None]
        ELSE [raised |-> FALSE, warned |-> FALSE, value |-> PyList(data_urls)]

\* get_file_size(urls, match_string): `for url in urls` raises TypeError
\* when urls is None
GetFileSizeRaises(urls) == urls.type = "NoneType"

\* line 177: `if year is not None`, year being the str(year) of line 176
YearGivenTest(year_arg, year) == IsNotNone(year)

RECURSIVE FlattenFiles(_)
\* the files of the urls in the order of the loops of lines 196-210
FlattenFiles(urls) ==
    IF Len(urls) = 0 THEN <<>> ELSE FilesOf(Head(urls)) \o FlattenFiles(Tail(urls))

\* line 123: all(sub in files[i]['name'] for sub in match_string if sub != []):
\* the loop runs over the characters of match_string
CountedInSize(file, match_string) ==
    IsNotNone(match_string) =>
        \A i \in DOMAIN match_string.val : Contains(file.name, <<match_string.val[i]>>)

\* get_file_size(urls, match_string): the sum of the sizes of the files it counts
get_file_size(urls, match_string) ==
    LET files == FlattenFiles(urls)
    IN  SumSeq([i \in DOMAIN files |->
                   IF CountedInSize(files[i], match_string) THEN files[i].size ELSE 0])

\* lines 216-217: match_string is None or match_string in files[i]['name']
Selected(file, match_string) ==
    IsNotNone(match_string) => Contains(file.name, match_string.val)

\* a deliberately wrong variant: no test of os.path.exists, every selected file is fetched
ToWriteAlways(files, folder, match_string, fails) ==
    {i \in DOMAIN files :
        /\ Selected(files[i], match_string)
        /\ files[i].name \notin fails}

\* lines 210-232: the files download_file writes: those not in
\* download_folder yet (line 212) that are selected and whose request
\* does not fail (the RequestException is caught and printed)
ToWrite(files, folder, match_string, fails) ==
    {i \in DOMAIN files :
        /\ files[i].name \notin folder
        /\ Selected(files[i], match_string)
        /\ files[i].name \notin fails}

NoDownload ==
    [site |-> "", year |-> None, match_string |-> None, check_size |-> FALSE,
     answer |-> "", fails |-> {}, folder |-> {}, partial |-> {}, log |-> <<>>,
     calls |-> 0, status |-> "none", exc |-> "", urls |-> None, warned |-> FALSE,
     size |-> 0]

\* lines 195-232 on the files of urls; the process may be interrupted
\* while download_file writes file number stop (0: it is not), which
\* leaves that file incomplete and the later ones untouched
DownloadLoop(before, urls, stop) ==
    LET files   == FlattenFiles(urls)
        todo    == ToWrite(files, dl.folder, dl.match_string, dl.fails)
        reached == IF stop = 0 THEN todo ELSE {i \in todo : i <= stop}
        order   == SelectIdx([i \in DOMAIN files |-> i \in reached], 1, Len(files))
    IN  [before EXCEPT
            !.status  = IF stop = 0 THEN "done" ELSE "interrupted",
            !.folder  = dl.folder \cup {files[i].name : i \in reached},
            !.partial = dl.partial \cup (IF stop = 0 THEN {} ELSE {files[stop].name}),
            !.log     = dl.log \o [k \in DOMAIN order |-> files[order[k]].name]]

\* download_aop_files(product, site, year, download_folder, match_string, check_size)
download_aop_files ==
    LET year  == Str(dl.year)
        got   == IF YearGivenTest(dl.year, year)
                 THEN list_available_urls_by_year(dl.site, year)
                 ELSE list_available_urls(dl.site)
        start == [dl EXCEPT !.calls = dl.calls + 1]
        sized == [start EXCEPT !.urls = got.value, !.warned = got.warned,
                               !.size = get_file_size(got.value.val, dl.match_string)]
    IN  /\ dl.status = "ready"
        /\ IF got.raised
           THEN dl' = [start EXCEPT !.status = "raised", !.exc = "UnboundLocalError"]
           ELSE IF GetFileSizeRaises(got.value)
           THEN dl' = [start EXCEPT !.status = "raised", !.exc = "TypeError",
                                    !.urls = got.value, !.warned = got.warned]
           ELSE IF dl.check_size /\ dl.answer # "y"
           THEN dl' = [sized EXCEPT !.status = "exited"]
           ELSE \E stop \in {0} \cup ToWrite(FlattenFiles(got.value.val), dl.folder,
                                             dl.match_string, dl.fails) :
                   dl' = DownloadLoop(sized, got.value.val, stop)
        /\ UNCHANGED <<fw, fn, fres, dirs, rf_dir, permutation42, rf_predict, last, runs, main>>

MaxCalls == 2

\* the caller calls download_aop_files again with the same arguments; the
\* requests that fail need not be the same
CallAgain ==
    /\ dl.status \notin {"none", "ready"}
    /\ dl.calls < MaxCalls
    /\ \E fails \in {{}, {<<"JORN", "2019", "_", "q", "p", "_", "C", "H", "M">>}} :
          dl' = [dl EXCEPT !.status = "ready", !.fails = fails, !.exc = "",
                           !.urls = None, !.warned = FALSE, !.size = 0]
    /\ UNCHANGED <<fw, fn, fres, dirs, rf_dir, permutation42, rf_predict, last, runs, main>>

SiteSample == {"JORN", "SRER", "WOOD", "ABBY"}

YearSample == {None, PyStr("2019"), PyStr("2020"), PyStr("2021")}

MatchSample ==
    {None, PyStr(<<"C", "H", "M">>), PyStr(<<"p", "q", "_", "C", "H", "M">>)}

FolderSample == {{}, {<<"JORN", "2019", "_", "p", "q", "_", "C", "H", "M">>}}

FailsSample == {{}, {<<"JORN", "2019", "_", "p", "q", "_", "D", "T", "M">>}}

InitDownload ==
    /\ \E site \in SiteSample, year \in YearSample, match_string \in MatchSample,
          check_size \in BOOLEAN, answer \in {"y", "n"},
          folder \in FolderSample, fails \in FailsSample :
          dl = [NoDownload EXCEPT !.site = site, !.year = year, !.match_string = match_string,
                                  !.check_size = check_size, !.answer = answer,
                                  !.folder = folder, !.fails = fails, !.status = "ready"]
    /\ fw = <<>>
    /\ fn = <<>>
    /\ fres = [raised |-> FALSE, warned |-> FALSE, lut |-> <<>>, called |-> FALSE]
    /\ dirs = <<>>
    /\ rf_dir = NoFiles
    /\ permutation42 = <<>>
    /\ rf_predict = {}
    /\ last = NoRun
    /\ runs = 0
    /\ main = NoMain

NextDownload == download_aop_files \/ CallAgain

SpecDownload == InitDownload /\ [][NextDownload]_vars

(* ---------------------------------------------------------------------- *)
(* The inputs: site-year directories written by the upstream stages        *)
(* ---------------------------------------------------------------------- *)
Chm == Word("chm")

\* An extracted-features csv: shapeID, pft, one X<nm> column per band of
\* the stack, then the auxiliary layers.  A row description [s, p, v, na]
\* gives crown s of class p with the cell values v, v+1, ... for the bands
\* and v for the auxiliary layers; band number na (if any) is missing.
MakeFeat(bands, aux, descs) ==
    [cols |-> <<ShapeIDCol, PftCol>> \o [j \in DOMAIN bands |-> XName(bands[j])] \o aux,
     rows |-> [r \in DOMAIN descs |->
                 <<descs[r].s, descs[r].p>>
                 \o [j \in DOMAIN bands |-> IF descs[r].na = j THEN NA ELSE descs[r].v + j - 1]
                 \o [a \in DOMAIN aux |-> descs[r].v]]]

Desc(s, p, v) == [s |-> s, p |-> p, v |-> v, na |-> 0]

\* four bands, one of them (1400 nm) in a bad-band window: 3 are retained
WlA == <<13000, 14000, 14500, 20000>>

\* four bands, 1340 nm on the edge of the window: all 4 are retained
WlB == <<13000, 13400, 14500, 20000>>

BandsOf(wl) == [j \in DOMAIN wl |-> Round(wl[j])]

LayersOf(wl) == [j \in DOMAIN wl |-> Num(Round(wl[j]))] \o <<Chm>>

\* crowns 1 (class 1, two pixels) and 2 (class 2)
RowsA == <<Desc(1, 1, 1), Desc(1, 1, 2), Desc(2, 2, 3)>>

\* crown 1 again, labelled class 2 here
RowsB == <<Desc(1, 2, 2), Desc(1, 2, 4)>>

\* crowns 1 and 4, both of class 1, two pixels each
RowsC == <<Desc(1, 1, 2), Desc(1, 1, 3), Desc(4, 1, 4), Desc(4, 1, 5)>>

FullSiteYear(wl, descs) ==
    SiteYear(TRUE, wl, TRUE, LayersOf(wl), TRUE, MakeFeat(BandsOf(wl), <<Chm>>, descs))

F1 == FullSiteYear(WlA, RowsA)

F2 == FullSiteYear(WlA, RowsB)

F3 == FullSiteYear(WlA, RowsC)

F4 == FullSiteYear(WlB, RowsC)

\* crowns 1, 2 and 3; the csv has no value for the second band of crown 2
RowsD == <<Desc(1, 1, 1), [Desc(2, 1, 3) EXCEPT !.na = 2], Desc(3, 2, 5), Desc(3, 2, 6)>>

F5 == FullSiteYear(WlA, RowsD)

\* an auxiliary layer whose name starts with "X": "Xtra"
Xtra == [x |-> 1, word |-> "tra", num |-> -1]

\* the site-year F3 with the auxiliary layers chm and Xtra
F6 == SiteYear(TRUE, WlA, TRUE, LayersOf(WlA) \o <<Xtra>>, TRUE,
               MakeFeat(BandsOf(WlA), <<Chm, Xtra>>, RowsC))

\* the contents of data_int_path/<site>/* tried: complete site-years with
\* equal and with different band counts, crowns shared between site-years,
\* and site-years lacking one or two of their three files
DirsSample ==
    { <<F1>>, <<F2>>, <<F3>>, <<F4>>, <<F5>>,
      <<F1, F2>>, <<F1, F3>>, <<F3, F4>>, <<F4, F1>>, <<F3, F6>>,
      <<[F1 EXCEPT !.has_wl = FALSE]>>,
      <<[F1 EXCEPT !.has_wl = FALSE], F3>>,
      <<F3, [F2 EXCEPT !.has_feat = FALSE]>>,
      <<F3, [F4 EXCEPT !.has_names = FALSE]>>,
      <<[F1 EXCEPT !.has_names = FALSE, !.has_feat = FALSE], F3>> }

NTreeSample == {500}

Init ==
    /\ dirs \in DirsSample
    /\ rf_dir = NoFiles
    /\ permutation42 = <<>>
    /\ rf_predict = {}
    /\ last = NoRun
    /\ runs = 0
    /\ fw = <<>>
    /\ fn = <<>>
    /\ fres = [raised |-> FALSE, warned |-> FALSE, lut |-> <<>>, called |-> FALSE]
    /\ dl = NoDownload
    /\ main = NoMain

\* train_pft_classifier(sites, data_int_path, _, ntree, randomMinSamples, _)
Train ==
    \E randomMinSamples \in BOOLEAN : \E ntree \in NTreeSample :
        Run(randomMinSamples, ntree)

\* between two trainings the upstream stages (re)write site-year directories
WriteSiteYears ==
    /\ last.status # "none"
    /\ runs < MaxRuns
    /\ dirs' \in DirsSample \ {dirs}
    /\ last' = NoRun
    /\ UNCHANGED <<rf_dir, permutation42, rf_predict, runs, fw, fn, fres, dl, main>>

\* os.listdir returns the site-year directories in arbitrary order: the
\* next call may enumerate the same directories in another order
ListdirReorder ==
    /\ last.status # "none"
    /\ runs < MaxRuns
    /\ \E p \in Perms(Len(dirs)) :
          /\ dirs' = [i \in DOMAIN dirs |-> dirs[p[i]]]
          /\ dirs' # dirs
    /\ UNCHANGED <<rf_dir, permutation42, rf_predict, last, runs, fw, fn, fres, dl, main>>

\* the user removes rf_dir: the next call starts from an empty directory
\* (line 606 creates it again)
RemoveRfDir ==
    /\ last.status # "none"
    /\ runs < MaxRuns
    /\ rf_dir # NoFiles
    /\ rf_dir' = NoFiles
    /\ UNCHANGED <<dirs, permutation42, rf_predict, last, runs, fw, fn, fres, dl, main>>

Next == Train \/ WriteSiteYears \/ ListdirReorder \/ RemoveRfDir

Spec == Init /\ [][Next]_vars

(* ---------------------------------------------------------------------- *)
(* Specification of filter_out_wavelengths as a pure function              *)
(* ---------------------------------------------------------------------- *)
WlSample == {13000, 13400, 13405, 14000, 14450, 17900, 18000, 19550}

NameSample == {Num(1300), Num(1340), Word("chm")}

\* the wavelengths 1300, 1400, 1450, 1800, 2000 nm with their layer names
ScenarioWl == <<13000, 14000, 14500, 18000, 20000>>

ScenarioNames == <<Num(1300), Num(1400), Num(1450), Num(1800), Num(2000)>>

NoCall == [raised |-> FALSE, warned |-> FALSE, lut |-> <<>>, called |-> FALSE]

InitFilter ==
    /\ \/ fw \in SeqsUpTo(WlSample, MaxLen) /\ fn \in SeqsUpTo(NameSample, MaxLen)
       \/ fw = ScenarioWl /\ fn = ScenarioNames
    /\ fres = NoCall
    /\ dl = NoDownload
    /\ main = NoMain
    /\ dirs = <<>>
    /\ rf_dir = NoFiles
    /\ permutation42 = <<>>
    /\ rf_predict = {}
    /\ last = NoRun
    /\ runs = 0

CallFilter ==
    /\ ~fres.called
    /\ fres' = [raised |-> filter_out_wavelengths(fw, fn).raised,
                warned |-> filter_out_wavelengths(fw, fn).warned,
                lut    |-> filter_out_wavelengths(fw, fn).lut,
                called |-> TRUE]
    /\ UNCHANGED <<fw, fn, dirs, rf_dir, permutation42, rf_predict, last, runs, dl, main>>

NextFilter == CallFilter

SpecFilter == InitFilter /\ [][NextFilter]_vars

(* ---------------------------------------------------------------------- *)
(* main: the configurations tried                                         *)
(* ---------------------------------------------------------------------- *)
MaxSiteYears == 2

SiteYearSample ==
    [site : {"JORN", "SOAP"}, year_inventory : {"2019", "2021"}, year_aop : {"2019", "2021"},
     force_rerun : { <<>>, << <<"prep_lad", FALSE>> >>,
                     << <<"prep_lad", FALSE>>, <<"prep_biomass", TRUE>> >> }]

\* the site-years of a configuration: the keys (site, year_inventory) are
\* distinct and the years of a site follow each other
CfgSample ==
    {c \in UNION {[1..n -> SiteYearSample] : n \in 1..MaxSiteYears} :
        /\ \A i, j \in DOMAIN c :
              (c[i].site = c[j].site /\ c[i].year_inventory = c[j].year_inventory) => i = j
        /\ \A i, j, k \in DOMAIN c : (i < j /\ j < k /\ c[i].site = c[k].site) => c[j].site = c[i].site}

InitMain ==
    /\ fw = <<>> /\ fn = <<>> /\ fres = NoCall
    /\ dirs = <<>> /\ rf_dir = NoFiles /\ permutation42 = <<>> /\ rf_predict = {}
    /\ last = NoRun /\ runs = 0
    /\ dl = NoDownload
    /\ \E cfg \in CfgSample, global_run \in {{}, {"JORN"}, {"TEAK"}}, hs_type \in {"tile", "flightline"} :
          main = [NoMain EXCEPT !.pc = "download", !.cfg = cfg, !.global_run = global_run,
                                !.hs_type = hs_type, !.i = 1]

NextMain == DownloadRawData \/ GeneratePftReference \/ ProcessIntermediate

SpecMain == InitMain /\ [][NextMain]_vars

(* ====================================================================== *)
(* Properties                                                              *)
(* ====================================================================== *)
ShapeIDs(groups) ==
    UNION {{groups[g].rows[r][ColIndex(groups[g].cols, ShapeIDCol)] :
               r \in DOMAIN groups[g].rows} : g \in DOMAIN groups}

\* the call got as far as the split
SplitDone == last.status # "none" /\ last.train_groups # <<>>

\* the call returned and rf_dir is as it left it
Completed == last.status = "done" /\ rf_dir # NoFiles

\* C1: after the split no shapeID has rows in both the train and the test
\* partition.  The code groups by (pft, shapeID), so a crown labelled with
\* two classes is two groups, which the split can separate.
C1_NoShapeIDInBoth ==
    SplitDone => ShapeIDs(last.train_groups) \cap ShapeIDs(last.test_groups) = {}

\* C2: the scaler and the PCA are fitted from the train rows only; the
\* objects persisted are the ones in memory after the test partition was
\* transformed, and the principal components of every test row are those
\* of that row alone under the persisted, train-fitted parameters.
C2_FitOnTrainOnly ==
    Completed =>
        LET train_df == TrainDf(last.train_groups)
            test_df  == TestDf(last.test_groups)
            X_train  == XPart(train_df)
            X_test   == XPart(test_df)
        IN  /\ rf_dir.scaler = <<ScalerFit(X_train)>>
            /\ rf_dir.pca = <<PcaFit(X_train, ScalerTransform(ScalerFit(X_train), X_train))>>
            /\ last.scaler = rf_dir.scaler
            /\ last.pca = rf_dir.pca
            /\ rf_dir.scaler[1].n = Len(X_train.rows)
            /\ Len(last.test_features.rows) = Len(X_test.rows)
            /\ last.test_features.scaler = rf_dir.scaler[1]
            /\ last.test_features.pca = rf_dir.pca[1]
            /\ \A r \in DOMAIN X_test.rows : last.test_features.rows[r].x = X_test.rows[r]

\* C2 witness: a call returned after transforming a test partition whose
\* rows differ from every train row
C2_Witness ==
    /\ Completed
    /\ Len(last.test_features.rows) >= 1
    /\ Len(last.train_features.rows) >= 2
    /\ \A r \in DOMAIN last.test_features.rows :
          \A t \in DOMAIN last.train_features.rows :
             last.test_features.rows[r].x # last.train_features.rows[t].x

\* C3: after completed runs the three persisted artifacts are a matched
\* bundle: the classifier was fitted on features produced by the persisted
\* scaler and PCA, and its feature list is the auxiliary columns plus
\* PC1..PCk of the persisted PCA.  The code rewrites scaler.joblib and
\* pca.joblib in every run but rf_model.joblib only when it is absent.
C3_MatchedBundle ==
    (Completed /\ rf_dir.rf_model # <<>>) =>
        LET X == rf_dir.rf_model[1].X
        IN  /\ X.pca = rf_dir.pca[1]
            /\ X.scaler = rf_dir.scaler[1]
            /\ \E a \in 0..Len(X.cols) :
                  /\ Len(X.cols) = a + rf_dir.pca[1].n_components
                  /\ \A i \in 1..rf_dir.pca[1].n_components : X.cols[a + i] = PCName(i)

\* C4: with randomMinSamples and no existing artifact the classifier is
\* fitted on exactly m rows per class, m the size of the smallest class of
\* the train partition.  The code subsamples train_df but fits on
\* train_features, built before the subsampling.
C4_BalancedFit ==
    (last.status # "none" /\ last.randomMinSamples /\ last.fitted) =>
        LET train_df == TrainDf(last.train_groups)
            y        == last.rf_model[1].y
        IN  \A c \in Classes(train_df) :
                Cardinality({r \in DOMAIN y : y[r] = c}) = MinSamples(train_df)

XCount(df) == Cardinality({k \in DOMAIN df.cols : StartsWithX(df.cols[k])})

Retained(sy) == Len(filter_out_wavelengths(sy.wavelengths, sy.layer_names).lut)

\* C5: two site-years with m < n retained bands aggregate to a table with
\* min(m, n) spectral columns.  pd.concat takes the union of the columns:
\* the table has max(m, n) of them.
C5_MinColumns ==
    (/\ last.status # "none"
     /\ last.stage # "aggregate"
     /\ Len(last.paths) = 2
     /\ ProcessSiteYear(last.paths[1]).status = "ok"
     /\ ProcessSiteYear(last.paths[2]).status = "ok"
     /\ Retained(last.paths[1]) # Retained(last.paths[2]))
    => XCount(last.features_df) = Min(Retained(last.paths[1]), Retained(last.paths[2]))

\* strictly inside one of the two windows, in tenths of a nanometre
Inside(w) == (13400 < w /\ w < 14450) \/ (17900 < w /\ w < 19550)

Returned == fres.called /\ ~fres.raised

\* C6: the table returned by filter_out_wavelengths holds exactly the input
\* wavelengths that are strictly inside neither window (1340, 1445, 1790
\* and 1955 are retained), in input order.
C6_RetainedExactly ==
    Returned =>
        LET kept == {i \in DOMAIN fw : ~Inside(fw[i])}
        IN  /\ Len(fres.lut) = Cardinality(kept)
            /\ \A i \in kept :
                  fres.lut[Cardinality({j \in kept : j <= i})].wavelength = fw[i]
            /\ \A k \in DOMAIN fres.lut : ~Inside(fres.lut[k].wavelength)

\* C6 witness: a returned table for an input with a boundary value and a
\* value inside a window
C6_Witness ==
    /\ Returned
    /\ \E i \in DOMAIN fw : fw[i] \in {13400, 14450, 17900, 19550}
    /\ \E i \in DOMAIN fw : Inside(fw[i])
    /\ Len(fres.lut) >= 1

\* C7: no call rewrites an existing rf_model.joblib: the run that finds
\* it fits nothing and evaluates the loaded model; the run that finds it
\* absent fits one classifier and writes it once.
C7_ModelWrittenOnce ==
    [][/\ (runs' = runs + 1 /\ rf_dir.rf_model # <<>>) => rf_dir'.rf_model = rf_dir.rf_model
       /\ (runs' = runs + 1 /\ last'.rf_model # <<>>) =>
             IF rf_dir.rf_model # <<>>
             THEN /\ ~last'.fitted
                  /\ last'.dumped = 0
                  /\ last'.rf_model = rf_dir.rf_model
             ELSE /\ last'.fitted
                  /\ last'.dumped = 1
                  /\ rf_dir'.rf_model = last'.rf_model
                  /\ last'.rf_model[1].y = Labels(last'.train_features)]_vars

\* C7 witness: a call returned that found the artifact of an earlier call
\* whose training rows were other ones
C7_Witness ==
    /\ Completed
    /\ ~last.fitted
    /\ last.rf_model = rf_dir.rf_model
    /\ rf_dir.rf_model[1].X # DropPft(last.train_features)

\* the rounded wavelengths match the first len(wavelengths) layer names
Matches(wavelengths, layer_names) ==
    /\ Len(layer_names) >= Len(wavelengths)
    /\ \A i \in DOMAIN wavelengths :
          IsDigit(layer_names[i]) /\ layer_names[i].num = Round(wavelengths[i])

\* C8: on a mismatch between the rounded wavelengths and the layer names
\* filter_out_wavelengths only warns and returns the table computed from
\* the wavelengths; it never raises.  The code raises ValueError on a
\* non-numeric name (float(name)) and on a shorter name list (np.allclose).
C8_MismatchOnlyWarns ==
    (fres.called /\ ~Matches(fw, fn)) =>
        /\ ~fres.raised
        /\ fres.warned
        /\ fres.lut = WavelengthLut(fw)

MissingInput(sy) == ~sy.has_wl \/ ~sy.has_feat

\* the site-year directories without those lacking the wavelength manifest
\* or the feature table
PresentOnly(paths) ==
    LET idx == SelectIdx([i \in DOMAIN paths |-> ~MissingInput(paths[i])], 1, Len(paths))
    IN  [k \in DOMAIN idx |-> paths[idx[k]]]

\* C9: a site-year without wavelength manifest or feature table raises no
\* error and contributes no rows; the rows of the other site-years are as
\* if its directory did not exist.  The code reads the layer-name manifest
\* between the two existence checks (C23): a site-year with a wavelength
\* manifest but neither layer names nor feature table raises.
C9_MissingIsSkipped ==
    (last.status # "none" /\ \E i \in DOMAIN last.paths : MissingInput(last.paths[i])) =>
        /\ ~Aggregate(PresentOnly(last.paths)).raised => last.stage # "aggregate"
        /\ last.stage # "aggregate" =>
              last.features_df = DropNa(Aggregate(PresentOnly(last.paths)).frame)

\* C10: when a class of the aggregated table has no row in the train
\* partition the call stops with an error and fits and persists nothing.
\* The code has no such check: it fits on the classes that are there.
C10_EmptyClassIsFatal ==
    (SplitDone /\ Classes(last.features_df) # Classes(TrainDf(last.train_groups))) =>
        /\ last.status = "error"
        /\ ~last.fitted
        /\ last.dumped = 0

\* the (pft, shapeID) keys of a list of groups
Keys(groups) == {KeyOf(groups[g], 1) : g \in DOMAIN groups}

\* the rows a classifier was fitted on, each with its label and as often as
\* it occurs, whatever their order
FitRows(rf_model) ==
    LET X     == rf_model.X
        rowOf == [r \in DOMAIN X.rows |->
                    [raw |-> {<<X.cols[k], X.rows[r].raw[k]>> : k \in DOMAIN X.rows[r].raw},
                     x   |-> X.rows[r].x,
                     y   |-> rf_model.y[r]]]
    IN  [e \in Range(rowOf) |-> Cardinality({r \in DOMAIN rowOf : rowOf[r] = e})]

\* the same site-year directories, in whatever order
SameFiles(a, b) ==
    /\ Len(a) = Len(b)
    /\ \E p \in Perms(Len(a)) : \A i \in DOMAIN a : a[i] = b[p[i]]

\* C11: a call that finds no classifier, made on the site-years of an
\* earlier call that found none either, in whatever order they are listed
\* and for either randomMinSamples, puts every (pft, shapeID) group in the
\* partition the earlier call put it in and fits the classifier on the same
\* rows with the same seed.
C11_SameSplitAndFit ==
    [][(/\ runs' = runs + 1
        /\ last.status # "none"
        /\ last.fitted
        /\ rf_dir.rf_model = <<>>
        /\ SameFiles(last.paths, dirs))
       => /\ Keys(last'.train_groups) = Keys(last.train_groups)
          /\ Keys(last'.test_groups) = Keys(last.test_groups)
          /\ last'.fitted
          /\ FitRows(last'.rf_model[1]) = FitRows(last.rf_model[1])
          /\ last'.rf_model[1].random_state = last.rf_model[1].random_state
          /\ last'.rf_model[1].random_state = RandomState]_vars

\* C11 witness: with randomMinSamples, a classifier fitted on the same rows
\* as an earlier one, in another order since the site-years were listed in
\* another order
C11_Witness ==
    /\ last.status # "none"
    /\ last.fitted
    /\ last.randomMinSamples
    /\ runs = 2
    /\ \E d \in rf_predict :
          /\ d.rf_model # last.rf_model[1]
          /\ FitRows(d.rf_model) = FitRows(last.rf_model[1])

\* the call got past the aggregation and the dropna of line 651
Aggregated == last.status # "none" /\ last.stage # "aggregate"

\* C12: after the dropna every row of features_df has a value in every
\* column of the concatenated table, and the rows of features_df are
\* exactly the rows of the concatenated table without a missing cell,
\* unaltered and in their order.
C12_RetainedIffComplete ==
    Aggregated =>
        LET all  == Aggregate(last.paths).frame
            kept == {r \in DOMAIN all.rows : \A k \in DOMAIN all.cols : all.rows[r][k] # NA}
        IN  /\ last.features_df.cols = all.cols
            /\ \A r \in DOMAIN last.features_df.rows :
                  /\ Len(last.features_df.rows[r]) = Len(all.cols)
                  /\ \A k \in DOMAIN all.cols : last.features_df.rows[r][k] # NA
            /\ Len(last.features_df.rows) = Cardinality(kept)
            /\ \A r \in kept :
                  last.features_df.rows[Cardinality({q \in kept : q <= r})] = all.rows[r]

\* C12 witness: a concatenated table of which some rows are dropped, with
\* one missing cell among several present ones, and some are retained
C12_Witness ==
    /\ Aggregated
    /\ Len(last.features_df.rows) >= 1
    /\ LET all == Aggregate(last.paths).frame
       IN  \E r \in DOMAIN all.rows :
              /\ \E k \in DOMAIN all.cols : all.rows[r][k] = NA
              /\ \E k \in DOMAIN all.cols : all.rows[r][k] # NA

\* C13: after a call that returned, whether it fitted the classifier or
\* loaded it, rf_summary_statistics.txt holds the metrics of the test labels
\* and predictions of that call and nothing else.
C13_SummaryOfThisRun ==
    Completed =>
        rf_dir.summary = <<SummaryStats(Labels(last.test_features), last.y_pred)>>

\* C13 witness: a second call returned that loaded the classifier and
\* evaluated it on test rows
C13_Witness ==
    /\ Completed
    /\ ~last.fitted
    /\ runs = 2
    /\ Len(last.y_pred) >= 1
    /\ rf_dir.summary # <<>>

\* the call predicted the test partition
Predicted == last.status # "none" /\ last.y_pred # <<>>

\* C14: for the test labels and the predictions of a call, the confusion
\* matrix table has one row and one column per class of the true or the
\* predicted labels, and the cell of row label r and column label c counts
\* the samples of true class r predicted c.  The code labels the rows and
\* columns with sorted(set(y_pred)): when a true class is never predicted
\* the matrix has more rows than labels and the DataFrame constructor raises.
C14_LabelledConfusionMatrix ==
    Predicted =>
        LET y_true == Labels(last.test_features)
            y_pred == last.y_pred
            both   == Range(y_true) \cup Range(y_pred)
            table  == SummaryStats(y_true, y_pred)
        IN  /\ last.stage # "metrics"
            /\ Range(table.index) = both
            /\ Len(table.index) = Cardinality(both)
            /\ Len(table.conf_matrix) = Len(table.index)
            /\ \A i \in DOMAIN table.index : \A j \in DOMAIN table.index :
                  table.conf_matrix[i][j] =
                      Cardinality({r \in DOMAIN y_true :
                                      y_true[r] = table.index[i] /\ y_pred[r] = table.index[j]})

\* C15: a call that returned leaves in rf_dir the text summary, the
\* confusion-matrix table normalized by true-class row sums (every row of a
\* class with test samples sums to 1), the per-class report table, and the
\* scaler, PCA and classifier artifacts.  train_pft_classifier writes the
\* text summary only; the two tables are written by cm_analysis and
\* class_report, which it does not call.
C15_ReportFiles ==
    Completed =>
        LET y_true == Labels(last.test_features)
            labels == SortInts(Range(y_true))
        IN  /\ rf_dir.scaler # <<>>
            /\ rf_dir.pca # <<>>
            /\ rf_dir.rf_model # <<>>
            /\ rf_dir.summary # <<>>
            /\ rf_dir.CMnorm_csv = <<cm_analysis(y_true, last.y_pred, labels)>>
            /\ \A i \in DOMAIN labels :
                  SumSeq([j \in DOMAIN labels |-> rf_dir.CMnorm_csv[1][i][j][1]])
                      = rf_dir.CMnorm_csv[1][i][1][2]
            /\ rf_dir.ClassReport_csv = <<class_report(y_true, last.y_pred, labels)>>

Fitted == last.status # "none" /\ last.fitted

\* C17: exactly one class-imbalance strategy is in effect for a fit:
\* without randomMinSamples balanced class weights on all train rows, with
\* randomMinSamples the rows subsampled to the smallest class and no
\* balanced weights.  The code builds the forest with
\* class_weight="balanced" in both cases and fits it on all train rows in
\* both cases (C4).
C17_OneStrategy ==
    Fitted =>
        LET rf_model == last.rf_model[1]
            train_df == TrainDf(last.train_groups)
        IN  IF last.randomMinSamples
            THEN /\ rf_model.class_weight # "balanced"
                 /\ Len(rf_model.y) = MinSamples(train_df) * Cardinality(Classes(train_df))
            ELSE /\ rf_model.class_weight = "balanced"
                 /\ Len(rf_model.y) = Len(train_df.rows)

\* n is round(w): the integer nearest to w (in tenths), the even one of two
IsRounded(w, n) ==
    \/ (10 * n - w < 5 /\ w - 10 * n < 5)
    \/ ((10 * n - w = 5 \/ w - 10 * n = 5) /\ n % 2 = 0)

\* C18: in the table returned by filter_out_wavelengths the column id of
\* every row is "X" followed by the decimal integer round(wavelength) of
\* that same row, the k-th retained wavelength carrying its own id; the
\* wavelengths 1300, 1400, 1450, 1800, 2000 give exactly the rows
\* (1300, X1300), (1450, X1450), (2000, X2000).
C18_IdOfOwnWavelength ==
    Returned =>
        LET kept == {i \in DOMAIN fw : ~Inside(fw[i])}
        IN  /\ \A k \in DOMAIN fres.lut :
                  /\ fres.lut[k].xwavelength.x = 1
                  /\ fres.lut[k].xwavelength.word = ""
                  /\ IsRounded(fres.lut[k].wavelength, fres.lut[k].xwavelength.num)
            /\ \A i \in kept :
                  IsRounded(fw[i], fres.lut[Cardinality({j \in kept : j <= i})].xwavelength.num)
            /\ fw = ScenarioWl =>
                  fres.lut = << [wavelength |-> 13000, xwavelength |-> [x |-> 1, word |-> "", num |-> 1300]],
                                [wavelength |-> 14500, xwavelength |-> [x |-> 1, word |-> "", num |-> 1450]],
                                [wavelength |-> 20000, xwavelength |-> [x |-> 1, word |-> "", num |-> 2000]] >>

\* C18 witness: the table returned for the wavelengths 1300, 1400, 1450,
\* 1800, 2000, of which the second and the fourth are dropped
C18_Witness ==
    /\ Returned
    /\ fw = ScenarioWl
    /\ Len(fres.lut) = 3
    /\ ~fres.warned

\* how often the row e occurs in the frames of a list of groups
Occurrences(groups, e) ==
    SumSeq([g \in DOMAIN groups |->
               Cardinality({r \in DOMAIN groups[g].rows : groups[g].rows[r] = e})])

\* C19: the split assigns whole (pft, shapeID) groups: every row of the
\* aggregated table is in exactly one of the two partitions, as often as
\* it occurs in the table, and two rows with the same (pft, shapeID) key
\* are in the same partition.
C19_WholeGroups ==
    SplitDone =>
        LET df      == last.features_df
            both    == last.train_groups \o last.test_groups
        IN  /\ Keys(last.train_groups) \cap Keys(last.test_groups) = {}
            /\ \A g \in DOMAIN both : \A r \in DOMAIN both[g].rows :
                  KeyOf(both[g], r) = KeyOf(both[g], 1)
            /\ \A g, h \in DOMAIN both : g # h => KeyOf(both[g], 1) # KeyOf(both[h], 1)
            /\ \A r \in DOMAIN df.rows :
                  Occurrences(both, df.rows[r])
                      = Cardinality({q \in DOMAIN df.rows : df.rows[q] = df.rows[r]})
            /\ SumSeq([g \in DOMAIN both |-> Len(both[g].rows)]) = Len(df.rows)
            /\ Len(TrainDf(last.train_groups).rows) + Len(TestDf(last.test_groups).rows)
                  = Len(df.rows)

\* C19 witness: a split of three groups, one of them of several rows
C19_Witness ==
    /\ SplitDone
    /\ Len(last.train_groups) = 2
    /\ Len(last.test_groups) = 1
    /\ \E g \in DOMAIN last.train_groups : Len(last.train_groups[g].rows) >= 2
    /\ Len(last.features_df.rows) >= 4

\* the urls of all years of a site
AllUrls(site) == SiteUrls(site).urls

\* C20: download_aop_files called without a year selects the data urls of
\* all years of the product and site, the result of list_available_urls,
\* and goes on to download from them.  The code converts year with
\* str(year) before testing `year is not None`: it filters the urls by the
\* text "None", gets None and raises TypeError in get_file_size.
C20_DefaultYearIsAllYears ==
    (dl.status \notin {"none", "ready"} /\ dl.year = None /\ Len(AllUrls(dl.site)) > 0) =>
        /\ dl.urls = list_available_urls(dl.site).value
        /\ dl.urls = PyList(AllUrls(dl.site))
        /\ dl.status # "raised"
        /\ dl.status = "done" =>
              \A f \in Range(FlattenFiles(AllUrls(dl.site))) :
                  (f.name \notin dl.fails /\ Selected(f, dl.match_string)) => f.name \in dl.folder

\* the site-years of the last call that the loop of lines 612-648 turned
\* into a table
Processed == {i \in DOMAIN last.paths : ProcessSiteYear(last.paths[i]).status = "ok"}

\* C21: for each site-year the renamed table has the spectral columns
\* X1..Xn, n the number of retained wavelengths, Xk holding the values of
\* the k-th retained wavelength, and shapeID, pft and every auxiliary
\* layer keep their name and values.  Line 639 strips the leading "X" of
\* every column name, not only of the spectral ones: an auxiliary layer
\* "Xtra" comes out as "tra".
C21_OrdinalRename ==
    last.status # "none" =>
        \A i \in Processed :
            LET sy    == last.paths[i]
                frame == ProcessSiteYear(sy).frame
                lut   == filter_out_wavelengths(sy.wavelengths, sy.layer_names).lut
                aux   == {sy.layer_names[j] : j \in {q \in DOMAIN sy.layer_names :
                                                       ~IsDigit(sy.layer_names[q])}}
            IN  /\ \A k \in 1..Len(lut) :
                      /\ Cardinality({c \in DOMAIN frame.cols :
                                         frame.cols[c] = [x |-> 1, word |-> "", num |-> k]}) = 1
                      /\ Column(frame, [x |-> 1, word |-> "", num |-> k])
                             = Column(sy.feat, lut[k].xwavelength)
                /\ Len(frame.cols) = 2 + Len(lut) + Cardinality(aux)
                /\ \A name \in {ShapeIDCol, PftCol} \cup aux :
                      /\ HasCol(frame, name)
                      /\ Column(frame, name) = Column(sy.feat, name)

\* the call grouped a table with a pft column
Grouped == Aggregated /\ HasCol(last.features_df, PftCol)

\* the classes of the aggregated table that consist of one (pft, shapeID) group
SingleGroupClasses(df) ==
    {c \in Classes(df) : Cardinality({k \in Keys(Groups(df)) : k[1] = c}) = 1}

\* C22: when a class consists of exactly one (pft, shapeID) group (and
\* there are groups enough to split) the split raises no error, all rows
\* of that class are on one side, and neither side is rebalanced: the two
\* sides hold every row of every class.
C22_SingleGroupClass ==
    (Grouped /\ Len(Groups(last.features_df)) >= 2
       /\ SingleGroupClasses(last.features_df) # {}) =>
        LET df       == last.features_df
            train_df == TrainDf(last.train_groups)
            test_df  == TestDf(last.test_groups)
        IN  /\ last.stage # "split"
            /\ SplitDone
            /\ \A c \in SingleGroupClasses(df) :
                  \/ /\ ClassCount(train_df, c) = ClassCount(df, c)
                     /\ ClassCount(test_df, c) = 0
                  \/ /\ ClassCount(test_df, c) = ClassCount(df, c)
                     /\ ClassCount(train_df, c) = 0
            /\ \A c \in Classes(df) :
                  ClassCount(train_df, c) + ClassCount(test_df, c) = ClassCount(df, c)

\* C22 witness: a split of a table with a class of one group of two rows
\* next to a class of one row
C22_Witness ==
    /\ SplitDone
    /\ \E c \in SingleGroupClasses(last.features_df) : ClassCount(last.features_df, c) >= 2
    /\ \E c \in Classes(last.features_df) : ClassCount(last.features_df, c) = 1

\* the wavelength manifest is there, the layer-name manifest is not
MissingNames(sy) == sy.has_wl /\ ~sy.has_names

\* the site-year directories without those lacking the layer-name manifest
WithNames(paths) ==
    LET idx == SelectIdx([i \in DOMAIN paths |-> ~MissingNames(paths[i])], 1, Len(paths))
    IN  [k \in DOMAIN idx |-> paths[idx[k]]]

\* C23: a site-year with a wavelength manifest but without
\* stacked_aop_layer_names.txt is skipped like any other incomplete
\* site-year: no error, and the aggregated table is that of the remaining
\* site-years.  The code reads the file at line 620 without a check:
\* pd.read_csv raises FileNotFoundError.
C23_MissingNamesIsSkipped ==
    (last.status # "none" /\ \E i \in DOMAIN last.paths : MissingNames(last.paths[i])) =>
        /\ ~Aggregate(WithNames(last.paths)).raised => last.stage # "aggregate"
        /\ last.stage # "aggregate" =>
              last.features_df = DropNa(Aggregate(WithNames(last.paths)).frame)

\* C24: the wavelengths of the table returned by filter_out_wavelengths
\* are strictly increasing from one row to the next, whatever the order of
\* the input list and whether or not it repeats values.  The code keeps
\* the retained wavelengths in input order and keeps repeated values.
C24_Increasing ==
    Returned =>
        \A k \in 1..(Len(fres.lut) - 1) :
            fres.lut[k].wavelength < fres.lut[k + 1].wavelength

\* the call built the two reduced tables
Reduced == last.status # "none" /\ last.train_features.cols # <<>>

\* features is the reduced table of df: no spectral column, the label and
\* auxiliary columns of df with their values, then PC1..PCk, the
\* components of row r being those of the spectral cells of row r of df
IsReducedOf(features, df) ==
    LET other == SelectIdx([c \in DOMAIN df.cols |-> df.cols[c].x = 0], 1, Len(df.cols))
        spect == SelectIdx([c \in DOMAIN df.cols |-> df.cols[c].x >= 1], 1, Len(df.cols))
        k     == Len(features.cols) - Len(other)
    IN  /\ \A c \in DOMAIN features.cols : features.cols[c].x = 0
        /\ k >= 1
        /\ k = features.pca.n_components
        /\ \A c \in DOMAIN other : features.cols[c] = df.cols[other[c]]
        /\ \A i \in 1..k : features.cols[Len(other) + i] = [x |-> 0, word |-> "PC", num |-> i]
        /\ \E c \in DOMAIN other : features.cols[c] = PftCol
        /\ Len(features.rows) = Len(df.rows)
        /\ \A r \in DOMAIN df.rows :
              /\ features.rows[r].raw = [c \in DOMAIN other |-> df.rows[r][other[c]]]
              /\ features.rows[r].x = [c \in DOMAIN spect |-> df.rows[r][spect[c]]]

\* C25: the train and the test reduced tables have no spectral column,
\* carry the pft label and every auxiliary column over unchanged, pair row
\* i of the principal components with row i of the labels, and have the
\* same ordered columns, with the same number of components.
C25_ReducedTables ==
    Reduced =>
        /\ IsReducedOf(last.train_features, TrainDf(last.train_groups))
        /\ IsReducedOf(last.test_features, TestDf(last.test_groups))
        /\ last.train_features.cols = last.test_features.cols
        /\ last.train_features.pca = last.test_features.pca
        /\ last.train_features.scaler = last.test_features.scaler

\* C25 witness: reduced tables of several samples each, with differing
\* spectral rows, and two auxiliary columns
C25_Witness ==
    /\ Reduced
    /\ Len(last.train_features.rows) >= 2
    /\ Len(last.test_features.rows) >= 2
    /\ last.test_features.rows[1].x # last.test_features.rows[2].x
    /\ last.train_features.rows[1].x # last.train_features.rows[2].x
    /\ Len(last.test_features.rows[1].raw) >= 3

\* the call got as far as the size check
Sized == dl.status \in {"exited", "interrupted", "done"}

\* C26: the size get_file_size computes in download_aop_files is the sum
\* of the sizes of the files the download loop selects with the same
\* match_string, those whose name contains match_string.  get_file_size
\* tests every character of match_string on its own: it also counts a file
\* whose name has all these characters without containing match_string.
C26_SizeOfSelectedFiles ==
    Sized =>
        LET files == FlattenFiles(dl.urls.val)
        IN  dl.size = SumSeq([i \in DOMAIN files |->
                                 IF IsNotNone(dl.match_string)
                                       /\ ~Contains(files[i].name, dl.match_string.val)
                                 THEN 0 ELSE files[i].size])

\* how often a name occurs in the log of the files written
Fetches(log, name) == Cardinality({k \in DOMAIN log : log[k] = name})

\* C28: a call of download_aop_files neither fetches nor rewrites a file
\* that is in the download folder, complete or left incomplete by an
\* interrupted call: over the calls every file is written at most once,
\* and never if it was there before the first call; and a failed request
\* does not keep the call from fetching the other selected files.
C28_FetchedOnce ==
    [][dl'.calls = dl.calls + 1
       => /\ dl.folder \subseteq dl'.folder
          /\ \A name \in dl.folder :
                /\ Fetches(dl'.log, name) = Fetches(dl.log, name)
                /\ name \in dl'.partial <=> name \in dl.partial
          /\ \A name \in dl'.folder : Fetches(dl'.log, name) <= 1
          /\ dl'.status = "done" =>
                \A f \in Range(FlattenFiles(dl'.urls.val)) :
                    (Selected(f, dl.match_string) /\ f.name \notin dl.fails)
                        => f.name \in dl'.folder]_vars

\* C28 witness: a second call completed after an interrupted one: it left
\* the incomplete file as it was, one of its requests failed, and it
\* fetched a file after the failure
C28_Witness ==
    /\ dl.status = "done"
    /\ dl.calls = 2
    /\ dl.partial # {}
    /\ dl.fails # {}
    /\ \E f \in Range(FlattenFiles(dl.urls.val)) : Selected(f, dl.match_string) /\ f.name \in dl.fails
    /\ Len(dl.log) >= 3
    /\ \A name \in dl.partial : Fetches(dl.log, name) = 1

\* the column names of a table
ColSet(df) == Range(df.cols)

\* a row of a table as a map from the column names to its cells
RowMap(df, r) == [c \in ColSet(df) |-> df.rows[r][ColIndex(df.cols, c)]]

\* the rows of a site-year table without a missing cell of their own
CompleteRows(df) == {r \in DOMAIN df.rows : \A k \in DOMAIN df.cols : df.rows[r][k] # NA}

\* the union of the columns of the site-year tables of the last call
UnionCols == UNION {ColSet(ProcessSiteYear(last.paths[i]).frame) : i \in Processed}

\* the site-years whose table has every column of the union
FullSiteYears == {i \in Processed : ColSet(ProcessSiteYear(last.paths[i]).frame) = UnionCols}

CeilFifth(n) == CHOOSE m \in 0..n : 5 * m >= n /\ 5 * (m - 1) < n

\* C29: with n (pft, shapeID) groups in the aggregated table, n >= 2, the
\* split puts ceil(0.2 * n) groups in the test partition and the other
\* groups in the train partition, however many rows the groups have; with
\* n < 2 (and with a table that has no pft column to group by) the call
\* ends in an error at the split and no partition is made.
C29_SplitSizes ==
    Aggregated =>
        IF ~HasCol(last.features_df, PftCol)
        THEN /\ last.status = "error" /\ last.stage = "groupby"
             /\ last.train_groups = <<>> /\ last.test_groups = <<>>
        ELSE LET n == Len(Groups(last.features_df))
             IN  IF n >= 2
                 THEN /\ last.stage \notin {"groupby", "split"}
                      /\ Len(last.test_groups) = CeilFifth(n)
                      /\ Len(last.train_groups) = n - CeilFifth(n)
                      /\ Len(last.test_groups) >= 1 /\ Len(last.train_groups) >= 1
                      /\ \A g \in DOMAIN last.train_groups : last.train_groups[g].rows # <<>>
                      /\ \A g \in DOMAIN last.test_groups : last.test_groups[g].rows # <<>>
                 ELSE /\ last.status = "error" /\ last.stage = "split"
                      /\ last.train_groups = <<>> /\ last.test_groups = <<>>

\* C29 witness: three groups with different numbers of rows, split into
\* one test group of several rows and two train groups
C29_Witness ==
    /\ Grouped
    /\ Len(Groups(last.features_df)) = 3
    /\ Len(last.test_groups) = 1
    /\ Len(last.test_groups[1].rows) >= 2
    /\ Len(last.train_groups) = 2
    /\ \E g \in DOMAIN last.train_groups : Len(last.train_groups[g].rows) = 1

\* the stages of a site-year have run
StagesRan == main.stages.index # 0

\* C30: the stages that main runs for a site-year are called with the
\* cache, the year_aop and the raw-data paths of that site-year.  The
\* assignments are in the body of the loop over the items of force_rerun:
\* for a site-year whose force_rerun is empty they are not executed, and
\* its stages run with what the site-year before it (or the last one of
\* the download loop) left.
C30_StagesOfOwnSiteYear ==
    StagesRan =>
        LET p  == main.cfg[main.stages.index]
            at == main.stages.locals
        IN  /\ at.cache = build_cache_site(p.site, p.year_inventory, p.year_aop)
            /\ at.year_aop = p.year_aop
            /\ at.laz_path = RawAopPath(p.site, p.year_aop, "laz")
            /\ at.hs_path = (IF main.hs_type = "tile"
                             THEN RawAopPath(p.site, p.year_aop, "hs_tile")
                             ELSE RawAopPath(p.site, p.year_aop, "hs_flightline"))
            /\ at.tif_path = RawAopPath(p.site, p.year_aop, "tif")
            /\ at.neon_plots_path = NeonPlotsPath

\* C30, the site-years with a force_rerun entry: their stages are called
\* with their own cache, year_aop and paths
C30_OwnWhenForced ==
    (StagesRan /\ main.cfg[main.stages.index].force_rerun # <<>>) =>
        LET p  == main.cfg[main.stages.index]
            at == main.stages.locals
        IN  /\ at.cache = build_cache_site(p.site, p.year_inventory, p.year_aop)
            /\ at.year_aop = p.year_aop
            /\ at.laz_path = RawAopPath(p.site, p.year_aop, "laz")

====
